---- MODULE Spec2Model ----
(***************************************************************************)
(* Model of the follower / following reconciliation scripts                *)
(* get_data_prod.py and get_data_v2.py.                                    *)
(*                                                                         *)
(* A run reads two HTML exports, extracts the anchor texts, computes the   *)
(* two set differences with numpy.setdiff1d, loads the two CSV logs with   *)
(* pandas.read_csv and merges the differences into them with               *)
(* update_csv_with_new_data, which rewrites a log with DataFrame.to_csv.   *)
(*                                                                         *)
(* The CSV files are modelled as text (a header and rows of strings); the  *)
(* data frames hold typed cells.  read_csv infers a type per column and    *)
(* turns the default NA tokens into NaN; to_csv formats the cells back.    *)
(***************************************************************************)
EXTENDS Integers, Sequences, FiniteSets, TLC

\* ------------------------------------------------------------------ bounds
\* Number of runs of a script that are explored.
MaxRuns == 2
\* Longest list of anchor texts an export holds.
MaxAnchors == 2
\* Longest batch of new records handed to one merge call.
MaxBatch == 2
\* Merge calls that build the starting log of the merge specification.
MaxSeeds == 2

\* ------------------------------------------------------------- identifiers
\* The user names of the exports, listed in code-point order (the order of
\* numpy's sort): an all-digit name, a plain name and a name that is one of
\* pandas' default NA tokens.
IdOrder == <<"7", "bob", "nan">>

Range(s) == {s[i] : i \in DOMAIN s}

Ids == Range(IdOrder)

\* Sequences over S of length at most n.
SeqsUpTo(S, n) == UNION {[1..k -> S] : k \in 0..n}

\* ------------------------------------------------------------ typed cells
\* A cell of a DataFrame column: a Python str, an int64, a float64 or NaN.
StrCell(s) == [k |-> "str", s |-> s, n |-> 0]
IntCell(n) == [k |-> "int", s |-> "", n |-> n]
FloatCell(n) == [k |-> "float", s |-> "", n |-> n]
NaN == [k |-> "nan", s |-> "", n |-> 0]

\* The strings read_csv turns into NaN (keep_default_na), among the strings
\* a log of this model can hold.
NAValues == {"", "nan"}

\* The strings read_csv parses as an integer, resp. only as a float.
IntLiterals == {"7"}
FloatLiterals == {"7.0"}

NumVal(s) == CASE s = "7" -> 7 [] s = "7.0" -> 7

FormatInt(n) == CASE n = 7 -> "7"
FormatFloat(n) == CASE n = 7 -> "7.0"

\* The text to_csv writes for a cell (na_rep is the empty string).
FormatCell(c) ==
  CASE c.k = "str" -> c.s
    [] c.k = "int" -> FormatInt(c.n)
    [] c.k = "float" -> FormatFloat(c.n)
    [] c.k = "nan" -> ""

\* read_csv's inference for one column of text: NA tokens become NaN; the
\* column is int64 when every field is an integer literal, float64 when
\* every non-NA field is numeric, and a column of str otherwise.
InferColumn(strs) ==
  LET na(i) == strs[i] \in NAValues
      nonNA == {i \in DOMAIN strs : ~na(i)}
      allInt == \A i \in DOMAIN strs : strs[i] \in IntLiterals
      allNum == \A i \in nonNA : strs[i] \in IntLiterals \cup FloatLiterals
  IN [i \in DOMAIN strs |->
        IF na(i) THEN NaN
        ELSE IF allInt THEN IntCell(NumVal(strs[i]))
        ELSE IF allNum THEN FloatCell(NumVal(strs[i]))
        ELSE StrCell(strs[i])]

\* Equality of two cells as the hash table behind Series.isin sees it: a
\* str equals only the same str, numbers compare by value, NaN matches NaN.
CellEq(a, b) ==
  \/ a.k = "str" /\ b.k = "str" /\ a.s = b.s
  \/ a.k \in {"int", "float"} /\ b.k \in {"int", "float"} /\ a.n = b.n
  \/ a.k = "nan" /\ b.k = "nan"

Isin(c, column) == \E i \in DOMAIN column : CellEq(c, column[i])

\* ------------------------------------------------------------- CSV files
\* A file on disk: absent, or a header line and rows <<identifier, date>>
\* of text.  A file that exists with no header is a zero-byte file.
NoFile == [exists |-> FALSE, header |-> <<>>, rows |-> <<>>]

\* A DataFrame: its column names and its rows <<cell, date>>.
DataFrame(columns, rows) == [isNone |-> FALSE, columns |-> columns, rows |-> rows]

\* The default existing_df=None of update_csv_with_new_data.
None_df == [isNone |-> TRUE, columns |-> <<>>, rows |-> <<>>]

Column(rows) == [i \in DOMAIN rows |-> rows[i][1]]

\* pd.read_csv(path) of a file with a header.  date_added holds
\* '%Y-%m-%d %H:%M:%S' text, which is neither numeric nor an NA token, so
\* the column stays as written; it is kept as the run's number.
read_csv(f) ==
  LET col == InferColumn(Column(f.rows))
  IN DataFrame(f.header, [i \in DOMAIN f.rows |-> <<col[i], f.rows[i][2]>>])

\* DataFrame.to_csv(path, index=False): the header and every cell as text.
to_csv(df) ==
  [exists |-> TRUE, header |-> df.columns,
   rows |-> [i \in DOMAIN df.rows |-> <<FormatCell(df.rows[i][1]), df.rows[i][2]>>]]


\* The file a merge leaves when it stops between opening the log for writing
\* (which truncates it) and closing it: the first lines of the new text.
Prefixes(f) ==
  {[exists |-> TRUE, header |-> <<>>, rows |-> <<>>]}
    \cup {[exists |-> TRUE, header |-> f.header, rows |-> SubSeq(f.rows, 1, k)] :
            k \in 0..(Len(f.rows) - 1)}

\* --------------------------------------------------------------- exports
\* Position of an identifier in the code-point order.
Rank(x) == CHOOSE i \in DOMAIN IdOrder : IdOrder[i] = x

\* The lists of user links of the exports: up to MaxAnchors names, repeats
\* included, listed in code-point order.  The only use main makes of a list
\* is np.setdiff1d, which sorts it and drops the repeats.
AnchorLists ==
  {s \in SeqsUpTo(Ids, MaxAnchors) :
     \A i \in 1..(Len(s) - 1) : Rank(s[i]) <= Rank(s[i + 1])}

\* An export file given on the command line: missing or unreadable, a
\* zero-length file, markup whose parse raises (an anchor without content
\* makes e.contents[0] raise IndexError), or markup; anchors lists the
\* first content of every <a> tag that has a target attribute, in document
\* order (the tags user_tag_extract selects).
Exports ==
  {[kind |-> k, anchors |-> <<>>] : k \in {"missing", "empty", "broken"}}
    \cup {[kind |-> "html", anchors |-> s] : s \in AnchorLists}

None == [kind |-> "none", anchors |-> <<>>]

\* read_file: the content, or None when the file cannot be opened or read.
read_file(f) == IF f.kind = "missing" THEN None ELSE f

\* Python truth of a content: None and the empty string are false.
Truthy(content) == content.kind \notin {"none", "empty"}

\* extract_user_links: [] for no content and for a parse that raises.
extract_user_links(html_content) ==
  IF ~Truthy(html_content) THEN <<>>
  ELSE IF html_content.kind = "broken" THEN <<>>
  ELSE html_content.anchors

\* The difference taken the wrong way round.
setdiff1d_swapped(ar1, ar2) ==
  SelectSeq(IdOrder, LAMBDA x : x \in Range(ar2) /\ x \notin Range(ar1))

\* np.setdiff1d(ar1, ar2): the sorted, unique values of ar1 not in ar2.
setdiff1d(ar1, ar2) ==
  SelectSeq(IdOrder, LAMBDA x : x \in Range(ar1) /\ x \notin Range(ar2))

\* pd.DataFrame({key: values, 'date_added': formatted_datetime}).
NewDataFrame(key, values, formatted) ==
  DataFrame(<<key, "date_added">>,
            [i \in DOMAIN values |-> <<StrCell(values[i]), formatted>>])

\* ------------------------------------------------- update_csv_with_new_data
\* new_data_df[~new_data_df[unique_column].isin(existing_df[unique_column])].
\* unique_column, when it is a column of both frames, is their first column.
NewRows(new_data_df, existing_df) ==
  SelectSeq(new_data_df.rows,
            LAMBDA r : ~Isin(r[1], Column(existing_df.rows)))

\* The write branch shared by both scripts: concat, to_csv, or no change.
AppendNewRows(file, new_data_df, existing_df) ==
  LET new_rows == NewRows(new_data_df, existing_df)
  IN IF new_rows # <<>>
     THEN [file |-> to_csv(DataFrame(existing_df.columns,
                                     existing_df.rows \o new_rows)),
           out |-> "File updated"]
     ELSE [file |-> file, out |-> "No new data to update"]

OrEmpty(existing_df, new_data_df) ==
  IF existing_df.isNone THEN DataFrame(new_data_df.columns, <<>>)
  ELSE existing_df

\* get_data_prod.py: the log file after the call, and what the call printed
\* or logged.
update_csv_with_new_data(file, new_data_df, existing_df, unique_column) ==
  LET existing == OrEmpty(existing_df, new_data_df)
  IN IF unique_column \notin Range(new_data_df.columns)
     THEN [file |-> file, out |-> "not found in new data"]
     ELSE IF unique_column \notin Range(existing.columns)
     THEN [file |-> file, out |-> "not found in existing data"]
     ELSE AppendNewRows(file, new_data_df, existing)

\* get_data_v2.py: no column check, so a missing column raises KeyError
\* out of the call.  DataFrame.append is that of the pandas the script was
\* written for, where it concatenates as pd.concat does.
update_csv_with_new_data_v2(file, new_data_df, existing_df, unique_column) ==
  LET existing == OrEmpty(existing_df, new_data_df)
  IN IF \/ unique_column \notin Range(new_data_df.columns)
        \/ unique_column \notin Range(existing.columns)
     THEN [file |-> file, out |-> "KeyError"]
     ELSE AppendNewRows(file, new_data_df, existing)

\* The default of unique_column in each script.
DefaultUniqueColumn(s) ==
  IF s = "prod" THEN "following_them_only" ELSE "following_me_only"

Errors == {"not found in new data", "not found in existing data", "KeyError"}


\* ------------------------------------------------------------------ state
VARIABLES
  script,                    \* which script the runs execute: "prod" or "v2"
  pc,                        \* position of the current run in main
  run_no,                    \* runs started so far; the clock of datetime.now()
  html_content_followers,    \* main's locals, named as in the source
  html_content_following,
  extracted_data_following,
  extracted_data_followers,
  following_only,
  followers_only,
  formatted_datetime,
  existing_following_df,
  existing_follower_df,
  out_following,             \* what each update call printed or logged
  out_follower,
  exit_msg,                  \* the message or exception the run ended with
  following_only_csv,        \* the two log files in the working directory
  follower_only_csv,
  first_one_sided,           \* history: first run in which an identifier was
                             \* on one side's export and not on the other's
  m_pc,                      \* the merge specification: its position,
  m_log,                     \* the log file at log_path,
  m_new,                     \* the batch new_data_df of the repeated call,
  m_default,                 \* whether existing_df is left to its default,
  m_calls,                   \* calls made with m_new, seeds made before,
  m_seeds,
  m_once,                    \* the log after the first call with m_new,
  m_out                      \* what the last call printed or logged

locals == <<html_content_followers, html_content_following,
            extracted_data_following, extracted_data_followers,
            following_only, followers_only, formatted_datetime,
            existing_following_df, existing_follower_df,
            out_following, out_follower, exit_msg>>

files == <<following_only_csv, follower_only_csv>>

mvars == <<m_pc, m_log, m_new, m_default, m_calls, m_seeds, m_once, m_out>>

vars == <<script, pc, run_no, locals, files, first_one_sided, mvars>>

Sides == {"following", "followers"}

\* A following_only.csv or follower_only.csv that some other tool or hand
\* left in the working directory, without the key column.
ForeignFile ==
  [exists |-> TRUE, header |-> <<"username", "date_added">>,
   rows |-> <<<<"alice", 0>>>>]

ClearLocals ==
  /\ html_content_followers' = None
  /\ html_content_following' = None
  /\ extracted_data_following' = <<>>
  /\ extracted_data_followers' = <<>>
  /\ following_only' = <<>>
  /\ followers_only' = <<>>
  /\ formatted_datetime' = 0
  /\ existing_following_df' = None_df
  /\ existing_follower_df' = None_df
  /\ out_following' = ""
  /\ out_follower' = ""
  /\ exit_msg' = ""

MergeIdle ==
  /\ m_pc = "off"
  /\ m_log = NoFile
  /\ m_new = None_df
  /\ m_default = FALSE
  /\ m_calls = 0
  /\ m_seeds = 0
  /\ m_once = NoFile
  /\ m_out = ""

Init ==
  /\ MergeIdle
  /\ script \in {"prod", "v2"}
  /\ pc = "idle"
  /\ run_no = 0
  /\ html_content_followers = None
  /\ html_content_following = None
  /\ extracted_data_following = <<>>
  /\ extracted_data_followers = <<>>
  /\ following_only = <<>>
  /\ followers_only = <<>>
  /\ formatted_datetime = 0
  /\ existing_following_df = None_df
  /\ existing_follower_df = None_df
  /\ out_following = ""
  /\ out_follower = ""
  /\ exit_msg = ""
  /\ following_only_csv \in {NoFile, ForeignFile}
  /\ follower_only_csv \in {NoFile, ForeignFile}
  /\ first_one_sided = [s \in Sides |-> [x \in Ids |-> 0]]

\* The identifiers on an export's side: its anchors when it is markup.
Present(f) == IF f.kind = "html" THEN Range(f.anchors) ELSE {}

\* first_one_sided after a run over the two exports.  A run compares the
\* sides, and so finds an identifier one-sided, when both exports are
\* markup with at least one user link; a run that ends early compares
\* nothing and has no timestamp.
Observe(seen, t, f_following, f_followers) ==
  LET one(s) == IF s = "following"
                THEN Present(f_following) \ Present(f_followers)
                ELSE Present(f_followers) \ Present(f_following)
  IN IF Present(f_following) # {} /\ Present(f_followers) # {}
     THEN [s \in Sides |-> [x \in Ids |->
             IF seen[s][x] = 0 /\ x \in one(s) THEN t ELSE seen[s][x]]]
     ELSE seen

\* main, lines 105-108: read the two exports named on the command line.
\* observe says whether the history variable follows the run.
ReadFiles(observe) ==
  /\ pc = "idle"
  /\ run_no < MaxRuns
  /\ \E f_followers \in Exports, f_following \in Exports :
       /\ html_content_followers' = read_file(f_followers)
       /\ html_content_following' = read_file(f_following)
       /\ first_one_sided' =
            IF observe
            THEN Observe(first_one_sided, run_no + 1, f_following, f_followers)
            ELSE first_one_sided
  /\ run_no' = run_no + 1
  /\ pc' = "read"
  /\ UNCHANGED <<script, extracted_data_following, extracted_data_followers,
                 following_only, followers_only, formatted_datetime,
                 existing_following_df, existing_follower_df,
                 out_following, out_follower, exit_msg, files, mvars>>

Main_ReadFiles == ReadFiles(FALSE)

Main_ReadFiles_Observed == ReadFiles(TRUE)

\* main, lines 110-114 and 165-166: extract, or give up on a failed read.
Main_Extract ==
  /\ pc = "read"
  /\ IF Truthy(html_content_followers) /\ Truthy(html_content_following)
     THEN /\ extracted_data_following' = extract_user_links(html_content_following)
          /\ extracted_data_followers' = extract_user_links(html_content_followers)
          /\ pc' = "extracted"
          /\ UNCHANGED exit_msg
     ELSE /\ exit_msg' = "Failed to read the HTML file, exiting."
          /\ pc' = "exit"
          /\ UNCHANGED <<extracted_data_following, extracted_data_followers>>
  /\ UNCHANGED <<script, run_no, html_content_followers, html_content_following,
                 following_only, followers_only, formatted_datetime,
                 existing_following_df, existing_follower_df,
                 out_following, out_follower, files, first_one_sided, mvars>>

\* A guard that lets a run through when only one side has user links.
HaveLinks_either(followers, following) ==
  followers # <<>> \/ following # <<>>

\* Line 116: both extracted lists are non-empty.
HaveLinks(followers, following) ==
  followers # <<>> /\ following # <<>>

\* main, lines 116-135 and 163-164: the two differences and the timestamp,
\* or give up when a side has no user links.
Main_Diff ==
  /\ pc = "extracted"
  /\ IF HaveLinks(extracted_data_followers, extracted_data_following)
     THEN /\ following_only' = setdiff1d(extracted_data_following, extracted_data_followers)
          /\ followers_only' = setdiff1d(extracted_data_followers, extracted_data_following)
          /\ formatted_datetime' = run_no
          /\ pc' = "diffed"
          /\ UNCHANGED exit_msg
     ELSE /\ exit_msg' = "No user links found."
          /\ pc' = "exit"
          /\ UNCHANGED <<following_only, followers_only, formatted_datetime>>
  /\ UNCHANGED <<script, run_no, html_content_followers, html_content_following,
                 extracted_data_following, extracted_data_followers,
                 existing_following_df, existing_follower_df,
                 out_following, out_follower, files, first_one_sided, mvars>>

\* The frames main builds at lines 132-135.
following_only_df ==
  NewDataFrame("following_them_only", following_only, formatted_datetime)
follower_only_df ==
  NewDataFrame("following_me_only", followers_only, formatted_datetime)

\* A load that forgets the expected columns of a missing log.
LoadLog_no_columns(file, key) ==
  IF file.exists THEN read_csv(file)
  ELSE DataFrame(<<>>, <<>>)

\* Lines 142-146 and 148-152: the log as a frame, or an empty frame with the
\* expected columns when the file does not exist.
LoadLog(file, key) ==
  IF file.exists THEN read_csv(file)
  ELSE DataFrame(<<key, "date_added">>, <<>>)

\* main, lines 141-152.  read_csv raises EmptyDataError on a zero-byte file.
Main_LoadLogs ==
  /\ pc = "diffed"
  /\ IF \E f \in {following_only_csv, follower_only_csv} :
          f.exists /\ f.header = <<>>
     THEN /\ exit_msg' = "EmptyDataError"
          /\ pc' = "exit"
          /\ UNCHANGED <<existing_following_df, existing_follower_df>>
     ELSE /\ existing_following_df' = LoadLog(following_only_csv, "following_them_only")
          /\ existing_follower_df' = LoadLog(follower_only_csv, "following_me_only")
          /\ pc' = "loaded"
          /\ UNCHANGED exit_msg
  /\ UNCHANGED <<script, run_no, html_content_followers, html_content_following,
                 extracted_data_following, extracted_data_followers,
                 following_only, followers_only, formatted_datetime,
                 out_following, out_follower, files, first_one_sided, mvars>>

\* The call of update_csv_with_new_data each script makes: get_data_prod.py
\* names the key column, get_data_v2.py leaves the default.
CallUpdate(s, file, new_data_df, existing_df, key) ==
  IF s = "prod"
  THEN update_csv_with_new_data(file, new_data_df, existing_df, key)
  ELSE update_csv_with_new_data_v2(file, new_data_df, existing_df,
                                   DefaultUniqueColumn("v2"))

UpdateFollowing ==
  CallUpdate(script, following_only_csv, following_only_df,
             existing_following_df, "following_them_only")

UpdateFollower ==
  CallUpdate(script, follower_only_csv, follower_only_df,
             existing_follower_df, "following_me_only")

\* main, line 155 (line 173 of get_data_v2.py): merge into following_only.csv.
\* An exception leaves main.
Main_UpdateFollowing ==
  /\ pc = "loaded"
  /\ following_only_csv' = UpdateFollowing.file
  /\ out_following' = UpdateFollowing.out
  /\ IF UpdateFollowing.out = "KeyError"
     THEN exit_msg' = "KeyError" /\ pc' = "exit"
     ELSE UNCHANGED exit_msg /\ pc' = "merged1"
  /\ UNCHANGED <<script, run_no, html_content_followers, html_content_following,
                 extracted_data_following, extracted_data_followers,
                 following_only, followers_only, formatted_datetime,
                 existing_following_df, existing_follower_df,
                 out_follower, follower_only_csv, first_one_sided, mvars>>

\* main, line 156 (line 174 of get_data_v2.py): merge into follower_only.csv.
Main_UpdateFollower ==
  /\ pc = "merged1"
  /\ follower_only_csv' = UpdateFollower.file
  /\ out_follower' = UpdateFollower.out
  /\ exit_msg' = IF UpdateFollower.out = "KeyError" THEN "KeyError" ELSE "done"
  /\ pc' = "exit"
  /\ UNCHANGED <<script, run_no, html_content_followers, html_content_following,
                 extracted_data_following, extracted_data_followers,
                 following_only, followers_only, formatted_datetime,
                 existing_following_df, existing_follower_df,
                 out_following, following_only_csv, first_one_sided, mvars>>

\* The process ends; its locals are gone, the files stay.
Main_Exit ==
  /\ pc = "exit"
  /\ pc' = "idle"
  /\ ClearLocals
  /\ UNCHANGED <<script, run_no, files, first_one_sided, mvars>>

Next ==
  \/ Main_ReadFiles
  \/ Main_Extract
  \/ Main_Diff
  \/ Main_LoadLogs
  \/ Main_UpdateFollowing
  \/ Main_UpdateFollower
  \/ Main_Exit

Spec == Init /\ [][Next]_vars


\* The same runs with the history variable kept.
NextObserved ==
  \/ Main_ReadFiles_Observed
  \/ Main_Extract
  \/ Main_Diff
  \/ Main_LoadLogs
  \/ Main_UpdateFollowing
  \/ Main_UpdateFollower
  \/ Main_Exit

SpecObserved == Init /\ [][NextObserved]_vars

\* ------------------------------------------------- interrupted log writes
\* to_csv(file_path) opens the log for writing, which truncates it, then
\* writes the header and the rows and closes it.  A process killed in
\* between leaves the first lines of the new text (line 87).
KilledInUpdateFollowing ==
  /\ pc = "loaded"
  /\ UpdateFollowing.out = "File updated"
  /\ following_only_csv' \in Prefixes(UpdateFollowing.file)
  /\ out_following' = ""
  /\ exit_msg' = "killed"
  /\ pc' = "exit"
  /\ UNCHANGED <<script, run_no, html_content_followers, html_content_following,
                 extracted_data_following, extracted_data_followers,
                 following_only, followers_only, formatted_datetime,
                 existing_following_df, existing_follower_df,
                 out_follower, follower_only_csv, first_one_sided, mvars>>

KilledInUpdateFollower ==
  /\ pc = "merged1"
  /\ UpdateFollower.out = "File updated"
  /\ follower_only_csv' \in Prefixes(UpdateFollower.file)
  /\ out_follower' = ""
  /\ exit_msg' = "killed"
  /\ pc' = "exit"
  /\ UNCHANGED <<script, run_no, html_content_followers, html_content_following,
                 extracted_data_following, extracted_data_followers,
                 following_only, followers_only, formatted_datetime,
                 existing_following_df, existing_follower_df,
                 out_following, following_only_csv, first_one_sided, mvars>>

NextKilled ==
  \/ Next
  \/ KilledInUpdateFollowing
  \/ KilledInUpdateFollower

SpecKilled == Init /\ [][NextKilled]_vars

\* ------------------------------------------------------ merge_append alone
\* merge_append(log_path, new_records, key_column): load the log as main
\* does (lines 142-146), or leave existing_df to its default when the log
\* is absent (lines 69-70), and call update_csv_with_new_data.
merge_append(s, file, new_data_df, default, key) ==
  LET existing == IF default /\ ~file.exists THEN None_df
                  ELSE LoadLog(file, key)
  IN IF s = "prod"
     THEN update_csv_with_new_data(file, new_data_df, existing, key)
     ELSE update_csv_with_new_data_v2(file, new_data_df, existing, key)

\* The batches of new records: any identifiers, repeated ones included.
Batches(t) ==
  {NewDataFrame("following_them_only", s, t) : s \in SeqsUpTo(Ids, MaxBatch)}

MainIdle ==
  /\ pc = "off"
  /\ run_no = 0
  /\ html_content_followers = None
  /\ html_content_following = None
  /\ extracted_data_following = <<>>
  /\ extracted_data_followers = <<>>
  /\ following_only = <<>>
  /\ followers_only = <<>>
  /\ formatted_datetime = 0
  /\ existing_following_df = None_df
  /\ existing_follower_df = None_df
  /\ out_following = ""
  /\ out_follower = ""
  /\ exit_msg = ""
  /\ following_only_csv = NoFile
  /\ follower_only_csv = NoFile
  /\ first_one_sided = [s \in Sides |-> [x \in Ids |-> 0]]

InitMerge ==
  /\ MainIdle
  /\ script \in {"prod", "v2"}
  /\ m_pc = "seed"
  /\ m_log = NoFile
  /\ m_new = None_df
  /\ m_default = FALSE
  /\ m_calls = 0
  /\ m_seeds = 0
  /\ m_once = NoFile
  /\ m_out = ""

mainvars == <<script, pc, run_no, locals, files, first_one_sided>>

\* An earlier merge call, which makes the starting log one the code wrote.
Merge_Seed ==
  /\ m_pc = "seed"
  /\ m_seeds < MaxSeeds
  /\ \E b \in Batches(m_seeds + 1), d \in BOOLEAN :
       m_log' = merge_append(script, m_log, b, d, "following_them_only").file
  /\ m_seeds' = m_seeds + 1
  /\ UNCHANGED <<m_pc, m_new, m_default, m_calls, m_once, m_out, mainvars>>

\* The batch of the call that is repeated.
Merge_Choose ==
  /\ m_pc = "seed"
  /\ \E b \in Batches(MaxSeeds + 1), d \in BOOLEAN :
       m_new' = b /\ m_default' = d
  /\ m_pc' = "call"
  /\ UNCHANGED <<m_log, m_calls, m_seeds, m_once, m_out, mainvars>>

\* One call of merge_append with the chosen batch.
Merge_Call ==
  /\ m_pc = "call"
  /\ m_calls < 2
  /\ LET r == merge_append(script, m_log, m_new, m_default, "following_them_only")
     IN /\ m_log' = r.file
        /\ m_out' = r.out
        /\ m_once' = IF m_calls = 0 THEN r.file ELSE m_once
  /\ m_calls' = m_calls + 1
  /\ UNCHANGED <<m_pc, m_new, m_default, m_seeds, mainvars>>

NextMerge ==
  \/ Merge_Seed
  \/ Merge_Choose
  \/ Merge_Call

SpecMerge == InitMerge /\ [][NextMerge]_vars


\* ================================================================ claims
IsPrefix(s, u) == Len(s) <= Len(u) /\ SubSeq(u, 1, Len(s)) = s

NoDuplicates(s) == \A i, j \in DOMAIN s : s[i] = s[j] => i = j

\* The rows to_csv writes for a frame of new records.
TextRows(df) == to_csv(df).rows

Header(key) == <<key, "date_added">>

\* C1: after any sequence of runs of get_data_prod.py the identifier column
\* of following_only.csv and of follower_only.csv holds no identifier twice,
\* identifiers being equal when they are the same string.
C1_LogUniqueness ==
  script = "prod" =>
    /\ NoDuplicates(Column(following_only_csv.rows))
    /\ NoDuplicates(Column(follower_only_csv.rows))

\* C2: merge_append called twice in succession with the same new_records
\* gives the log that one call gives, and the second call appends nothing.
C2_Idempotent ==
  m_calls = 2 => m_log = m_once /\ m_out = "No new data to update"

A_following == Range(extracted_data_following)
B_followers == Range(extracted_data_followers)

\* C3: once the differences are computed, following_only is A \ B and
\* followers_only is B \ A as sets (aOnly and B disjoint, bOnly and A
\* disjoint, aOnly with the intersection is A, bOnly with it is B), also
\* when the extracted lists repeat identifiers; no result repeats one.
C3_Diff ==
  pc \in {"diffed", "loaded", "merged1"} =>
    LET aOnly == Range(following_only)
        bOnly == Range(followers_only)
        both == A_following \cap B_followers
    IN /\ aOnly \cap B_followers = {}
       /\ bOnly \cap A_following = {}
       /\ aOnly \cup both = A_following
       /\ bOnly \cup both = B_followers
       /\ aOnly = A_following \ B_followers
       /\ bOnly = B_followers \ A_following
       /\ NoDuplicates(following_only)
       /\ NoDuplicates(followers_only)

\* A run whose following export repeats an identifier that the followers
\* export holds too, with a follower that is not followed back.
C3_Witness ==
  /\ pc = "diffed"
  /\ Len(extracted_data_following) > Cardinality(A_following)
  /\ A_following \cap B_followers # {}
  /\ followers_only # <<>>

\* C4: a merge that finds the key column missing from the new data or from
\* the existing log leaves its log file as it was, and the run goes on: the
\* merge of the other side still runs and the run does not abort.
C4_SchemaErrorsIsolated ==
  [][/\ (pc = "loaded" /\ UpdateFollowing.out \in Errors)
          => following_only_csv' = following_only_csv /\ pc' = "merged1"
     /\ (pc = "merged1" /\ UpdateFollower.out \in Errors)
          => follower_only_csv' = follower_only_csv /\ exit_msg' = "done"]_vars

\* A run in which an input is missing, unreadable or empty, or in which an
\* extraction yields no identifier.
Doomed ==
  /\ pc \in {"read", "extracted", "diffed", "loaded", "merged1", "exit"}
  /\ \/ ~Truthy(html_content_followers)
     \/ ~Truthy(html_content_following)
     \/ extract_user_links(html_content_followers) = <<>>
     \/ extract_user_links(html_content_following) = <<>>

EarlyMessages ==
  {"Failed to read the HTML file, exiting.", "No user links found."}

Preserved(old, new, batch) ==
  /\ IsPrefix(old.rows, new.rows)
  /\ \E keep \in SUBSET Range(batch) :
       SubSeq(new.rows, Len(old.rows) + 1, Len(new.rows))
         = SelectSeq(batch, LAMBDA r : r \in keep)

\* C6: whenever a merge of get_data_prod.py writes a log, the rows of the
\* previous log are a prefix of the new log, in order and with their
\* date_added, and the appended rows follow in the order presented.
C6_HistoryPreserved ==
  [][script = "prod" =>
       /\ (pc = "loaded" /\ following_only_csv' # following_only_csv)
            => Preserved(following_only_csv, following_only_csv',
                         TextRows(following_only_df))
       /\ (pc = "merged1" /\ follower_only_csv' # follower_only_csv)
            => Preserved(follower_only_csv, follower_only_csv',
                         TextRows(follower_only_df))]_vars

\* Every row of the log carries the number of the first run in which its
\* identifier was one-sided, and every identifier that was is in the log.
FirstDetection(file, side) ==
  /\ \A i \in DOMAIN file.rows :
       /\ file.rows[i][1] \in Ids
       /\ file.rows[i][2] = first_one_sided[side][file.rows[i][1]]
  /\ \A x \in Ids :
       first_one_sided[side][x] # 0 => x \in Range(Column(file.rows))

\* C7: starting from absent logs, after any sequence of runs of
\* get_data_prod.py every row carries as date_added the timestamp of the
\* earliest run that found its identifier on the log's side and not on
\* the other, and no such run goes unrecorded.
C7_FirstDetection ==
  (/\ script = "prod"
   /\ pc = "idle"
   /\ following_only_csv # ForeignFile
   /\ follower_only_csv # ForeignFile) =>
    /\ FirstDetection(following_only_csv, "following")
    /\ FirstDetection(follower_only_csv, "followers")

\* Every key of the batch is in the identifier column of the log file.
AllPresent(batch, file) ==
  \A x \in Range(batch) : x \in Range(Column(file.rows))

\* C8: a merge of get_data_prod.py whose records all have their key in the
\* existing log (or that has no record) leaves the log file as it was, not
\* rewritten and not created, and reports no change.
C8_NothingNew ==
  [][script = "prod" =>
       /\ (pc = "loaded" /\ following_only_csv.header # ForeignFile.header
             /\ AllPresent(following_only, following_only_csv))
            => /\ following_only_csv' = following_only_csv
               /\ out_following' = "No new data to update"
       /\ (pc = "merged1" /\ follower_only_csv.header # ForeignFile.header
             /\ AllPresent(followers_only, follower_only_csv))
            => /\ follower_only_csv' = follower_only_csv
               /\ out_follower' = "No new data to update"]_vars

Created(key, df) == [exists |-> TRUE, header |-> Header(key), rows |-> TextRows(df)]

\* C9 as stated: a merge of get_data_prod.py against a log that does not
\* exist is no error and creates the log with the header {key, date_added}
\* and the new records as its rows.
C9_BootstrapAlways ==
  [][script = "prod" =>
       /\ (pc = "loaded" /\ ~following_only_csv.exists)
            => /\ out_following' \notin Errors
               /\ following_only_csv' = Created("following_them_only", following_only_df)
       /\ (pc = "merged1" /\ ~follower_only_csv.exists)
            => /\ out_follower' \notin Errors
               /\ follower_only_csv' = Created("following_me_only", follower_only_df)]_vars

\* C9 amended: a merge of get_data_prod.py against a log that does not
\* exist is no error; with at least one new record it creates the log with
\* the header {key, date_added} and exactly the new records as rows, and
\* with no new record it creates no file.
C9_Bootstrap ==
  [][script = "prod" =>
       /\ (pc = "loaded" /\ ~following_only_csv.exists)
            => /\ out_following' \notin Errors
               /\ following_only_csv' =
                    IF following_only # <<>>
                    THEN Created("following_them_only", following_only_df)
                    ELSE NoFile
       /\ (pc = "merged1" /\ ~follower_only_csv.exists)
            => /\ out_follower' \notin Errors
               /\ follower_only_csv' =
                    IF followers_only # <<>>
                    THEN Created("following_me_only", follower_only_df)
                    ELSE NoFile]_vars

\* The end of a run that found both logs absent and created both.
C9_Witness ==
  /\ script = "prod"
  /\ pc = "exit"
  /\ existing_following_df = DataFrame(Header("following_them_only"), <<>>)
  /\ existing_follower_df = DataFrame(Header("following_me_only"), <<>>)
  /\ following_only_csv = Created("following_them_only", following_only_df)
  /\ follower_only_csv = Created("following_me_only", follower_only_df)
  /\ Len(following_only_csv.rows) = 2
  /\ follower_only_csv.rows # <<>>

\* C10: whatever happens in a merge, the log file afterwards is the complete
\* previous log or the complete new log.
C10_AtomicRewrite ==
  [][/\ pc = "loaded"
          => following_only_csv' \in {following_only_csv, UpdateFollowing.file}
     /\ pc = "merged1"
          => follower_only_csv' \in {follower_only_csv, UpdateFollower.file}]_vars

====
